---- MODULE Spec2Model ----
(***************************************************************************)
(* Translation office: order lifecycle (requests, quotes, jobs, invoices,  *)
(* audit log) and the per-job live channel, modelled from app/routers and  *)
(* app/services.  Tables are sequences indexed by their autoincrement      *)
(* primary key; a handler is a function from the store to the store.       *)
(***************************************************************************)
EXTENDS Integers, Sequences, FiniteSets, TLC

VARIABLES
    requests,      \* translation_requests table
    quotes,        \* quotes table
    jobs,          \* jobs table
    invoices,      \* invoices table
    audit_logs,    \* audit_logs table
    messages,      \* messages table
    now,           \* datetime.utcnow(), a logical clock
    resp,          \* the response of the last handler that returned
    steps,         \* handlers served since the initial state
    workers,       \* in-flight handlers of the thread pool (interleaved runs)
    connections,   \* ConnectionManager.connections: job id -> list of sockets
    sockets        \* the state of every WebSocket the server has seen

vars == <<requests, quotes, jobs, invoices, audit_logs, messages, now, resp,
          steps, workers, connections, sockets>>

(***************************************************************************)
(* Bounds of the exploration.                                              *)
(***************************************************************************)
MaxSteps == 2       \* handlers served after the initial state
MaxRequests == 2    \* rows of translation_requests

(***************************************************************************)
(* Values.                                                                 *)
(***************************************************************************)
NULL == 0           \* a nullable integer / datetime column holding None
None == "None"      \* a nullable text column holding None

ROLE_CLIENT == "client"
ROLE_MANAGER == "manager"
ROLE_TRANSLATOR == "translator"
ROLE_ADMIN == "admin"

\* users table: the three default users, then two registered clients.
UserRole == <<ROLE_MANAGER, ROLE_TRANSLATOR, ROLE_TRANSLATOR, ROLE_CLIENT, ROLE_CLIENT>>
Users == DOMAIN UserRole
Managers == {u \in Users : UserRole[u] = ROLE_MANAGER}
Translators == {u \in Users : UserRole[u] = ROLE_TRANSLATOR}
Clients == {u \in Users : UserRole[u] = ROLE_CLIENT}

\* db.get(models.User, user_id)
GetUser(uid) == IF uid \in Users THEN uid ELSE NULL

\* require_roles(*roles): the dependency lets the user through
HasRole(u, roles) == u \in Users /\ UserRole[u] \in roles

DEFAULT_CURRENCY == "EUR"
FallbackUnitPrice == 100        \* 0.1, in thousandths of a currency unit

\* rates table (never written by a handler): EN -> IT at 0.10
Rates == {[source_language |-> "EN", target_language |-> "IT", unit_price |-> 100,
           currency |-> "EUR"]}

(***************************************************************************)
(* The store.                                                              *)
(***************************************************************************)
DB == [requests |-> requests, quotes |-> quotes, jobs |-> jobs,
       invoices |-> invoices, audit_logs |-> audit_logs, messages |-> messages,
       now |-> now]

EmptyDB == [requests |-> <<>>, quotes |-> <<>>, jobs |-> <<>>, invoices |-> <<>>,
            audit_logs |-> <<>>, messages |-> <<>>, now |-> 1]

Ids(table) == DOMAIN table

\* db.get(Model, id): the id when the row exists, else None
Get(table, id) == IF id \in DOMAIN table THEN id ELSE NULL

Min(S) == CHOOSE x \in S : \A y \in S : x <= y

\* request.quote (uselist=False): the row whose request_id is r, the first by
\* primary key when the table holds several.
QuoteOf(d, r) ==
    LET S == {q \in Ids(d.quotes) : d.quotes[q].request_id = r}
    IN  IF S = {} THEN NULL ELSE Min(S)

\* request.job (uselist=False)
JobOf(d, r) ==
    LET S == {j \in Ids(d.jobs) : d.jobs[j].request_id = r}
    IN  IF S = {} THEN NULL ELSE Min(S)

\* job.invoice that never finds the row
InvoiceOfNever(d, j) == NULL

\* job.invoice (uselist=False)
InvoiceOf(d, j) ==
    LET S == {i \in Ids(d.invoices) : d.invoices[i].job_id = j}
    IN  IF S = {} THEN NULL ELSE Min(S)

JobsOf(d, r) == {j \in Ids(d.jobs) : d.jobs[j].request_id = r}
QuotesOf(d, r) == {q \in Ids(d.quotes) : d.quotes[q].request_id = r}
InvoicesOf(d, j) == {i \in Ids(d.invoices) : d.invoices[i].job_id = j}

(***************************************************************************)
(* services/audit.py                                                       *)
(***************************************************************************)
log_action(d, user, action, object_type, object_id) ==
    [d EXCEPT !.audit_logs = Append(@,
        [user_id |-> user, action |-> action, object_type |-> object_type,
         object_id |-> object_id, created_at |-> d.now])]

(***************************************************************************)
(* services/quotes.py                                                      *)
(***************************************************************************)
NoPrice == -1       \* unit_price: Optional[float] = None

get_rate(source_language, target_language) ==
    LET S == {x \in Rates : x.source_language = source_language
                              /\ x.target_language = target_language}
    IN  IF S = {} THEN NoPrice ELSE (CHOOSE x \in S : TRUE).unit_price

\* a total that drops the third decimal instead of rounding
RoundDown2(word_count, unit_price) == (word_count * unit_price) \div 10

\* round(word_count * unit_price, 2): unit prices are in thousandths, the
\* result is in hundredths, ties go to the even hundredth.
Round2(word_count, unit_price) ==
    LET m == word_count * unit_price
        q == m \div 10
        r == m % 10
    IN  IF r < 5 THEN q
        ELSE IF r > 5 THEN q + 1
        ELSE IF q % 2 = 0 THEN q ELSE q + 1

\* create_or_update_quote, lines 30-32: the unit price the quote gets
QuotePrice(d, r, unit_price) ==
    LET rate == get_rate(d.requests[r].source_language, d.requests[r].target_language)
    IN  IF unit_price = NoPrice
        THEN (IF rate # NoPrice THEN rate ELSE FallbackUnitPrice)
        ELSE unit_price

\* a write that stores one word more in the Quote than in the Request
WriteQuoteOff(d, r, seen, word_count, price, currency) ==
    LET total == Round2(word_count, price)
        qs == IF seen # NULL
              THEN [d.quotes EXCEPT ![seen].word_count = word_count + 1,
                                    ![seen].unit_price = price,
                                    ![seen].currency = currency,
                                    ![seen].total = total]
              ELSE Append(d.quotes,
                     [request_id |-> r, word_count |-> word_count + 1,
                      unit_price |-> price, currency |-> currency,
                      total |-> total, status |-> "Draft", created_at |-> d.now])
    IN  [d EXCEPT !.quotes = qs, !.requests[r].word_count = word_count]

\* a re-pricing that puts the Quote back to Draft
WriteQuoteReset(d, r, seen, word_count, price, currency) ==
    LET total == Round2(word_count, price)
        qs == IF seen # NULL
              THEN [d.quotes EXCEPT ![seen].word_count = word_count,
                                    ![seen].unit_price = price,
                                    ![seen].currency = currency,
                                    ![seen].total = total,
                                    ![seen].status = "Draft"]
              ELSE Append(d.quotes,
                     [request_id |-> r, word_count |-> word_count,
                      unit_price |-> price, currency |-> currency,
                      total |-> total, status |-> "Draft", created_at |-> d.now])
    IN  [d EXCEPT !.quotes = qs, !.requests[r].word_count = word_count]

\* create_or_update_quote, lines 33-54: `seen` is what request.quote read
WriteQuote(d, r, seen, word_count, price, currency) ==
    LET total == Round2(word_count, price)
        qs == IF seen # NULL
              THEN [d.quotes EXCEPT ![seen].word_count = word_count,
                                    ![seen].unit_price = price,
                                    ![seen].currency = currency,
                                    ![seen].total = total]
              ELSE Append(d.quotes,
                     [request_id |-> r, word_count |-> word_count,
                      unit_price |-> price, currency |-> currency,
                      total |-> total, status |-> "Draft", created_at |-> d.now])
    IN  [d EXCEPT !.quotes = qs, !.requests[r].word_count = word_count]

create_or_update_quote(d, r, word_count, unit_price, currency) ==
    WriteQuote(d, r, QuoteOf(d, r), word_count, QuotePrice(d, r, unit_price), currency)

\* mark_quote_status that commits without setting the status
mark_quote_status_unset(d, q, status) == d

mark_quote_status(d, q, status) == [d EXCEPT !.quotes[q].status = status]

(***************************************************************************)
(* services/jobs.py                                                        *)
(***************************************************************************)
NewJob(r) ==
    [request_id |-> r, translator_id |-> NULL, status |-> "New",
     due_date |-> None, notes |-> None, delivered_filename |-> None,
     delivered_at |-> NULL, translated_text |-> None, manager_comment |-> None]

\* ensure_job_for_request, the insert branch (request.job was None when read)
InsertJob(d, r) ==
    [d EXCEPT !.jobs = Append(@, NewJob(r)), !.requests[r].status = "New"]

\* ensure_job_for_request that does not look at request.job
EnsureJobWriteAlways(d, r, seen) == InsertJob(d, r)

\* ensure_job_for_request: `seen` is what request.job read
EnsureJobWrite(d, r, seen) == IF seen # NULL THEN d ELSE InsertJob(d, r)

\* the Job ensure_job_for_request returns
EnsureJobResult(d, r, seen) == IF seen # NULL THEN seen ELSE Len(d.jobs) + 1

ensure_job_for_request(d, r) == EnsureJobWrite(d, r, JobOf(d, r))

\* assign_translator that never tests the role
AssignRaisesNever(translator) == FALSE

\* assign_translator raises ValueError("Selected user is not a translator")
AssignRaises(translator) ==
    translator # NULL /\ UserRole[translator] # ROLE_TRANSLATOR

\* an assign_translator that puts the Job back to New when it clears the
\* translator
assign_translator_revert(d, j, translator, due_date, notes) ==
    LET r == d.jobs[j].request_id
        status == IF translator = NULL THEN "New"
                  ELSE IF d.jobs[j].status = "New" THEN "Assigned"
                  ELSE d.jobs[j].status
    IN  [d EXCEPT !.jobs[j].translator_id = translator,
                  !.jobs[j].status = status,
                  !.jobs[j].due_date = due_date,
                  !.jobs[j].notes = notes,
                  !.requests[r].status = status]

assign_translator(d, j, translator, due_date, notes) ==
    LET advance == translator # NULL /\ d.jobs[j].status = "New"
        r == d.jobs[j].request_id
        d1 == [d EXCEPT !.jobs[j].translator_id = translator,
                        !.jobs[j].status = IF advance THEN "Assigned" ELSE @,
                        !.jobs[j].due_date = due_date,
                        !.jobs[j].notes = notes]
    IN  IF advance THEN [d1 EXCEPT !.requests[r].status = "Assigned"] ELSE d1

\* an update_job_status that stamps delivered_at on every status
update_job_status_stamp(d, j, status) ==
    [d EXCEPT !.jobs[j].status = status,
              !.requests[d.jobs[j].request_id].status = status,
              !.jobs[j].delivered_at = d.now]

update_job_status(d, j, status) ==
    LET r == d.jobs[j].request_id
    IN  [d EXCEPT !.jobs[j].status = status,
                  !.requests[r].status = status,
                  !.jobs[j].delivered_at = IF status = "Delivered" THEN d.now ELSE @]

\* can_view_job that lets every translator see every Job
can_view_job_any_translator(d, user, j) ==
    \/ UserRole[user] \in {ROLE_MANAGER, ROLE_ADMIN, ROLE_TRANSLATOR}
    \/ UserRole[user] = ROLE_CLIENT /\ d.requests[d.jobs[j].request_id].client_id = user

can_view_job(d, user, j) ==
    \/ UserRole[user] \in {ROLE_MANAGER, ROLE_ADMIN}
    \/ UserRole[user] = ROLE_CLIENT /\ d.requests[d.jobs[j].request_id].client_id = user
    \/ UserRole[user] = ROLE_TRANSLATOR /\ d.jobs[j].translator_id = user

(***************************************************************************)
(* Handlers.  Each takes the store and the request's inputs and gives the  *)
(* store it leaves committed and its response.  mail_ok: send_email        *)
(* returned (it raises when the template or the SMTP server fails).        *)
(***************************************************************************)
\* op: the handler; user: the session's user; arg: the id in the path;
\* code, detail: the HTTP status and the flash or error text; obj: the row the
\* handler created or returned.
Response(op, user, arg, code, detail, obj) ==
    [op |-> op, user |-> user, arg |-> arg, code |-> code, detail |-> detail,
     obj |-> obj]

Out(d, r) == [d |-> d, r |-> r]

NoResponse == Response("none", NULL, NULL, 0, "", NULL)

(***************************************************************************)
(* routers/client.py                                                       *)
(***************************************************************************)
NewRequest(user, word_count) ==
    [client_id |-> user, source_language |-> "EN", target_language |-> "IT",
     status |-> "New", translated_filename |-> None, word_count |-> word_count,
     created_at |-> NULL]

\* extract_ok: extract_text_from_file returned (pdfminer and python-docx
\* raise on a file they cannot parse; nothing catches it).  The Request is
\* committed before the extraction, with the column default word_count = 0.
create_request(d, user, word_count, extract_ok) ==
    IF ~HasRole(user, {ROLE_CLIENT})
    THEN Out(d, Response("create_request", user, NULL, 403, "Forbidden", NULL))
    ELSE LET r == Len(d.requests) + 1
             d0 == [d EXCEPT !.requests =
                       Append(@, [NewRequest(user, 0) EXCEPT !.created_at = d.now])]
             d1 == [d0 EXCEPT !.requests[r].word_count = word_count]
             d2 == create_or_update_quote(d1, r, word_count, NoPrice, DEFAULT_CURRENCY)
             d3 == log_action(d2, user, "upload_request", "translation_request", r)
         IN  IF extract_ok
             THEN Out(d3, Response("create_request", user, NULL, 302, "Request received. Quote generated.", r))
             ELSE Out(d0, Response("create_request", user, NULL, 500, "extract_text_from_file raised", r))

\* approve_quote: quote is None or belongs to another client
QuoteHidden(d, user, q) ==
    Get(d.quotes, q) = NULL \/ d.requests[d.quotes[q].request_id].client_id # user

\* approve_quote, lines 152-154: job.status = "New"; db.add(job); db.commit()
ApproveResetJob(d, j) == [d EXCEPT !.jobs[j].status = "New"]

\* approve_quote and reject_quote have no `request` parameter: after the
\* writes and the audit entry are committed, set_flash(request, ...) raises
\* NameError and the client gets a 500.
approve_quote(d, user, q, mail_ok) ==
    IF ~HasRole(user, {ROLE_CLIENT})
    THEN Out(d, Response("approve_quote", user, q, 403, "Forbidden", NULL))
    ELSE IF QuoteHidden(d, user, q)
    THEN Out(d, Response("approve_quote", user, q, 404, "Quote not found", NULL))
    ELSE LET r == d.quotes[q].request_id
             d1 == mark_quote_status(d, q, "Approved")
             seen == JobOf(d1, r)
             j == EnsureJobResult(d1, r, seen)
             d2 == EnsureJobWrite(d1, r, seen)
             d3 == ApproveResetJob(d2, j)
             d4 == log_action(d3, user, "quote_approved", "quote", q)
         IN  IF mail_ok
             THEN Out(d4, Response("approve_quote", user, q, 500, "NameError: request", j))
             ELSE Out(d3, Response("approve_quote", user, q, 500, "send_email raised", j))

reject_quote(d, user, q) ==
    IF ~HasRole(user, {ROLE_CLIENT})
    THEN Out(d, Response("reject_quote", user, q, 403, "Forbidden", NULL))
    ELSE IF QuoteHidden(d, user, q)
    THEN Out(d, Response("reject_quote", user, q, 404, "Quote not found", NULL))
    ELSE LET d1 == mark_quote_status(d, q, "Rejected")
             d2 == log_action(d1, user, "quote_rejected", "quote", q)
         IN  Out(d2, Response("reject_quote", user, q, 500, "NameError: request", q))

(***************************************************************************)
(* routers/manager.py                                                      *)
(***************************************************************************)
Staff == {ROLE_MANAGER, ROLE_ADMIN}

update_quote(d, user, q, unit_price) ==
    IF ~HasRole(user, Staff)
    THEN Out(d, Response("update_quote", user, q, 403, "Forbidden", NULL))
    ELSE IF Get(d.quotes, q) = NULL
    THEN Out(d, Response("update_quote", user, q, 404, "Quote not found", NULL))
    ELSE LET d1 == create_or_update_quote(d, d.quotes[q].request_id,
                        d.quotes[q].word_count, unit_price, DEFAULT_CURRENCY)
             d2 == log_action(d1, user, "quote_updated", "quote", q)
         IN  Out(d2, Response("update_quote", user, q, 302, "Quote updated.", q))

\* send_quote, lines 115-117: quote.request.status = "Quoted"
SendMarkRequest(d, q) == [d EXCEPT !.requests[d.quotes[q].request_id].status = "Quoted"]

send_quote(d, user, q, mail_ok) ==
    IF ~HasRole(user, Staff)
    THEN Out(d, Response("send_quote", user, q, 403, "Forbidden", NULL))
    ELSE IF Get(d.quotes, q) = NULL
    THEN Out(d, Response("send_quote", user, q, 404, "Quote not found", NULL))
    ELSE LET d1 == mark_quote_status(d, q, "Sent")
             d2 == SendMarkRequest(d1, q)
             d3 == log_action(d2, user, "quote_sent", "quote", q)
         IN  IF mail_ok
             THEN Out(d3, Response("send_quote", user, q, 302, "Quote sent to client.", q))
             ELSE Out(d2, Response("send_quote", user, q, 500, "send_email raised", q))

\* assign_job, line 154: job.manager_comment = None
\* assign_job, lines 145-149: datetime.fromisoformat(due_date) raises
BadDate(due_date) == due_date # None /\ due_date \notin {"2030-01-01"}

\* a handler that keeps the manager comment
ClearCommentNever(d, j) == d

ClearComment(d, j) == [d EXCEPT !.jobs[j].manager_comment = None]

assign_job(d, user, j, translator_id, due_date, notes, mail_ok) ==
    IF ~HasRole(user, Staff)
    THEN Out(d, Response("assign_job", user, j, 403, "Forbidden", NULL))
    ELSE IF Get(d.jobs, j) = NULL
    THEN Out(d, Response("assign_job", user, j, 404, "Job not found", NULL))
    ELSE LET translator == IF translator_id # NULL THEN GetUser(translator_id) ELSE NULL
         IN  IF BadDate(due_date)
             THEN Out(d, Response("assign_job", user, j, 400, "Invalid due date format", j))
             ELSE IF AssignRaises(translator)
             THEN Out(d, Response("assign_job", user, j, 400, "Selected user is not a translator", j))
             ELSE LET d1 == assign_translator(d, j, translator, due_date, notes)
                      d2 == ClearComment(d1, j)
                      d3 == log_action(d2, user, "job_assigned", "job", j)
                  IN  IF translator # NULL /\ ~mail_ok
                      THEN Out(d3, Response("assign_job", user, j, 500, "send_email raised", j))
                      ELSE Out(d3, Response("assign_job", user, j, 302, "Job assignment saved.", j))

accept_job(d, user, j) ==
    IF ~HasRole(user, Staff)
    THEN Out(d, Response("accept_job", user, j, 403, "Forbidden", NULL))
    ELSE IF Get(d.jobs, j) = NULL
    THEN Out(d, Response("accept_job", user, j, 404, "Job not found", NULL))
    ELSE LET d1 == ClearComment(d, j)
             d2 == update_job_status(d1, j, "Accepted")
             d3 == log_action(d2, user, "job_accepted", "job", j)
         IN  Out(d3, Response("accept_job", user, j, 302, "Job accepted.", j))

return_job(d, user, j, comment) ==
    IF ~HasRole(user, Staff)
    THEN Out(d, Response("return_job", user, j, 403, "Forbidden", NULL))
    ELSE IF Get(d.jobs, j) = NULL
    THEN Out(d, Response("return_job", user, j, 404, "Job not found", NULL))
    ELSE LET d1 == [d EXCEPT !.jobs[j].manager_comment = comment]
             d2 == update_job_status(d1, j, "Assigned")
             d3 == log_action(d2, user, "job_returned", "job", j)
         IN  Out(d3, Response("return_job", user, j, 302, "Job returned to translator.", j))

\* a generate_invoice that does not test the status
NotInvoiceableMissing(d, j) == Get(d.jobs, j) = NULL

\* generate_invoice: the job is missing or not Delivered/Accepted
NotInvoiceable(d, j) ==
    Get(d.jobs, j) = NULL \/ d.jobs[j].status \notin {"Delivered", "Accepted"}

\* an Invoice that takes no amount from the Quote
InvoiceRowZero(d, j) ==
    [client_id |-> d.requests[d.jobs[j].request_id].client_id, job_id |-> j,
     amount |-> 0, currency |-> "EUR", status |-> "Draft", issued_at |-> NULL,
     pdf_path |-> NULL]

\* generate_invoice, lines 217-222: models.Invoice(...), read from the Job
InvoiceRow(d, j) ==
    LET r == d.jobs[j].request_id
        q == QuoteOf(d, r)
    IN  [client_id |-> d.requests[r].client_id, job_id |-> j,
         amount |-> IF q # NULL THEN d.quotes[q].total ELSE 0,
         currency |-> IF q # NULL THEN d.quotes[q].currency ELSE "EUR",
         status |-> "Draft", issued_at |-> NULL, pdf_path |-> NULL]

\* generate_invoice, lines 223-225: db.add(invoice); db.commit()
AddInvoice(d, row) == [d EXCEPT !.invoices = Append(@, row)]

InsertInvoice(d, j) == AddInvoice(d, InvoiceRow(d, j))

\* a rendering that records the PDF and leaves the Invoice in Draft
generate_invoice_pdf_draft(d, i) == [d EXCEPT !.invoices[i].pdf_path = i]

\* services/invoices.py generate_invoice_pdf, once the canvas is saved
generate_invoice_pdf(d, i) ==
    [d EXCEPT !.invoices[i].pdf_path = i,
              !.invoices[i].status = "Issued",
              !.invoices[i].issued_at = d.now]

\* render_ok: reportlab wrote the PDF (generate_invoice_pdf raises otherwise)
generate_invoice(d, user, j, render_ok) ==
    IF ~HasRole(user, Staff)
    THEN Out(d, Response("generate_invoice", user, j, 403, "Forbidden", NULL))
    ELSE IF NotInvoiceable(d, j)
    THEN Out(d, Response("generate_invoice", user, j, 400, "Job not ready for invoicing", NULL))
    ELSE IF InvoiceOf(d, j) # NULL
    THEN Out(d, Response("generate_invoice", user, j, 302, "Invoice already generated.", InvoiceOf(d, j)))
    ELSE LET i == Len(d.invoices) + 1
             d1 == InsertInvoice(d, j)
             d2 == generate_invoice_pdf(d1, i)
             d3 == log_action(d2, user, "invoice_generated", "invoice", i)
         IN  IF render_ok
             THEN Out(d3, Response("generate_invoice", user, j, 302, "Invoice generated.", i))
             ELSE Out(d1, Response("generate_invoice", user, j, 500, "generate_invoice_pdf raised", i))

(***************************************************************************)
(* routers/translator.py                                                   *)
(***************************************************************************)
\* start_job / deliver_job: not job or job.translator_id != user.id
JobHidden(d, user, j) == Get(d.jobs, j) = NULL \/ d.jobs[j].translator_id # user

\* start_job has no `request` parameter: set_flash(request, ...) raises
\* NameError after the status and the audit entry are committed.
start_job(d, user, j) ==
    IF ~HasRole(user, {ROLE_TRANSLATOR})
    THEN Out(d, Response("start_job", user, j, 403, "Forbidden", NULL))
    ELSE IF JobHidden(d, user, j)
    THEN Out(d, Response("start_job", user, j, 404, "Job not found", NULL))
    ELSE LET d1 == update_job_status(d, j, "InProgress")
             d2 == log_action(d1, user, "job_started", "job", j)
         IN  Out(d2, Response("start_job", user, j, 500, "NameError: request", j))

\* save_deliverable and line 80 of deliver_job
SaveDeliverable(d, j, deliverable) ==
    IF deliverable = None THEN d
    ELSE [d EXCEPT !.jobs[j].delivered_filename = deliverable,
                   !.requests[d.jobs[j].request_id].translated_filename = deliverable]

\* a deliver_job whose failing notification undoes the delivery
deliver_job_undone(d, user, j, translated_text, deliverable, mail_ok) ==
    IF ~HasRole(user, {ROLE_TRANSLATOR})
    THEN Out(d, Response("deliver_job", user, j, 403, "Forbidden", NULL))
    ELSE IF JobHidden(d, user, j)
    THEN Out(d, Response("deliver_job", user, j, 404, "Job not found", NULL))
    ELSE Out(d, Response("deliver_job", user, j, 500, "send_email raised", j))

deliver_job(d, user, j, translated_text, deliverable, mail_ok) ==
    IF ~HasRole(user, {ROLE_TRANSLATOR})
    THEN Out(d, Response("deliver_job", user, j, 403, "Forbidden", NULL))
    ELSE IF JobHidden(d, user, j)
    THEN Out(d, Response("deliver_job", user, j, 404, "Job not found", NULL))
    ELSE IF deliverable = None /\ translated_text = ""
    THEN Out(d, Response("deliver_job", user, j, 302, "Provide a translation or upload a deliverable.", j))
    ELSE LET d1 == SaveDeliverable(d, j, deliverable)
             d2 == [d1 EXCEPT !.jobs[j].translated_text = translated_text]
             d3 == update_job_status(d2, j, "Delivered")
             d4 == log_action(d3, user, "job_delivered", "job", j)
         IN  IF mail_ok
             THEN Out(d4, Response("deliver_job", user, j, 302, "Deliverable uploaded.", j))
             ELSE Out(d4, Response("deliver_job", user, j, 500, "send_email raised", j))

(***************************************************************************)
(* Inputs the handlers are called with.                                    *)
(***************************************************************************)
WordCounts == {3, 1000}
UnitPrices == {100, 125}                 \* 0.10 and 0.125
\* due_date and notes of the assignment form, as <<due_date, notes>>
AssignForms == {<<None, None>>, <<"2030-01-01", "rush">>, <<"soon", None>>}
Comments == {"fix numbers"}
Texts == {"", "Precio: 3"}
Uploads == {None, "out.docx"}
AssignTargets == {u \in Users : UserRole[u] # ROLE_MANAGER} \cup {NULL}

(***************************************************************************)
(* Initial states: the store after construction, and the store after each  *)
(* prefix of the end-to-end run (intake, send, approve, assign, start,     *)
(* deliver, invoice, return), computed by the handlers themselves.         *)
(***************************************************************************)
Served(out) == [out.d EXCEPT !.now = @ + 1]

Run1 == Served(create_request(EmptyDB, 4, 1000, TRUE))
Run2 == Served(send_quote(Run1, 1, 1, TRUE))
Run3 == Served(approve_quote(Run2, 4, 1, TRUE))
Run4 == Served(assign_job(Run3, 1, 1, 2, None, None, TRUE))
Run5 == Served(start_job(Run4, 2, 1))
Run6 == Served(deliver_job(Run5, 2, 1, "Precio: 3", None, TRUE))
Run7 == Served(generate_invoice(Run6, 1, 1, TRUE))
Run8 == Served(return_job(Run7, 1, 1, "fix numbers"))
Runs == {EmptyDB, Run1, Run2, Run3, Run4, Run5, Run6, Run7, Run8}

SetDB(d) ==
    /\ requests' = d.requests
    /\ quotes' = d.quotes
    /\ jobs' = d.jobs
    /\ invoices' = d.invoices
    /\ audit_logs' = d.audit_logs
    /\ messages' = d.messages
    /\ now' = d.now

StoreIs(d) ==
    /\ requests = d.requests
    /\ quotes = d.quotes
    /\ jobs = d.jobs
    /\ invoices = d.invoices
    /\ audit_logs = d.audit_logs
    /\ messages = d.messages
    /\ now = d.now

InitStore == \E d \in Runs : StoreIs(d)

Init ==
    /\ InitStore
    /\ resp = NoResponse
    /\ steps = 0
    /\ workers = <<>>
    /\ connections = <<>>
    /\ sockets = <<>>

(***************************************************************************)
(* One handler served from start to end with no other request in between.  *)
(***************************************************************************)
Serve(out) ==
    /\ steps < MaxSteps
    /\ SetDB(Served(out))
    /\ resp' = out.r
    /\ steps' = steps + 1
    /\ UNCHANGED <<workers, connections, sockets>>

\* callers of a handler gated to `roles`: every user the dependency lets
\* through, and one it turns away
Callers(roles) ==
    {u \in Users : UserRole[u] \in roles}
        \cup {Min({u \in Users : UserRole[u] \notin roles})}

\* ids a caller may put in the path: every row, and one that does not exist
QuoteIds == 1 .. Len(quotes) + 1
JobIds == 1 .. Len(jobs) + 1

CreateRequest ==
    /\ Len(requests) < MaxRequests
    /\ \E u \in Callers({ROLE_CLIENT}), wc \in WordCounts, extract_ok \in BOOLEAN :
        Serve(create_request(DB, u, wc, extract_ok))

UpdateQuote ==
    \E u \in Callers(Staff), q \in QuoteIds, p \in UnitPrices : Serve(update_quote(DB, u, q, p))

SendQuote ==
    \E u \in Callers(Staff), q \in QuoteIds, ok \in BOOLEAN : Serve(send_quote(DB, u, q, ok))

ApproveQuote ==
    \E u \in Callers({ROLE_CLIENT}), q \in QuoteIds, ok \in BOOLEAN : Serve(approve_quote(DB, u, q, ok))

RejectQuote ==
    \E u \in Callers({ROLE_CLIENT}), q \in QuoteIds : Serve(reject_quote(DB, u, q))

AssignJob ==
    \E u \in Callers(Staff), j \in JobIds, t \in AssignTargets, f \in AssignForms,
       ok \in BOOLEAN :
        Serve(assign_job(DB, u, j, t, f[1], f[2], ok))

StartJob ==
    \E u \in Callers({ROLE_TRANSLATOR}), j \in JobIds : Serve(start_job(DB, u, j))

DeliverJob ==
    \E u \in Callers({ROLE_TRANSLATOR}), j \in JobIds, t \in Texts, f \in Uploads, ok \in BOOLEAN :
        Serve(deliver_job(DB, u, j, t, f, ok))

AcceptJob ==
    \E u \in Callers(Staff), j \in JobIds : Serve(accept_job(DB, u, j))

ReturnJob ==
    \E u \in Callers(Staff), j \in JobIds, c \in Comments : Serve(return_job(DB, u, j, c))

GenerateInvoice ==
    \E u \in Callers(Staff), j \in JobIds, ok \in BOOLEAN : Serve(generate_invoice(DB, u, j, ok))

Next ==
    \/ CreateRequest
    \/ UpdateQuote
    \/ SendQuote
    \/ ApproveQuote
    \/ RejectQuote
    \/ AssignJob
    \/ StartJob
    \/ DeliverJob
    \/ AcceptJob
    \/ ReturnJob
    \/ GenerateInvoice

Spec == Init /\ [][Next]_vars

(***************************************************************************)
(* Handlers served concurrently.  The sync handlers run on the thread      *)
(* pool, each with its own Session; another request can run between two    *)
(* commits of a handler, and between a lazy load (request.job,             *)
(* request.quote, job.invoice) and the commit that acts on what it read.   *)
(* A worker holds what its handler has read so far.                        *)
(***************************************************************************)
MaxThreads == 2     \* threads of the pool serving requests
Threads == 1 .. MaxThreads

NoRow == [client_id |-> NULL, job_id |-> NULL, amount |-> 0, currency |-> "",
          status |-> "", issued_at |-> NULL, pdf_path |-> NULL]

\* op, pc: the handler and where it stands; user, arg: its caller and path id;
\* seen: the row a lazy load returned; loaded: the Job status the Session
\* holds; obj: the row it created; price: the form's unit price; row: the
\* Invoice it built.
Idle == [op |-> "idle", pc |-> "idle", user |-> NULL, arg |-> NULL, seen |-> NULL,
         loaded |-> "", obj |-> NULL, price |-> NoPrice, row |-> NoRow]

InitConc ==
    /\ InitStore
    /\ resp = NoResponse
    /\ steps = 0
    /\ workers = [t \in Threads |-> Idle]
    /\ connections = <<>>
    /\ sockets = <<>>

\* a request arrives and a free thread takes it
Free(t) == workers[t].pc = "idle" /\ steps < MaxSteps

KeepDB == UNCHANGED <<requests, quotes, jobs, invoices, audit_logs, messages, now>>

SetWorker(t, w) == workers' = [workers EXCEPT ![t] = w]

\* the handler returns (or raises) before it has written anything
Refuse(r) ==
    /\ resp' = r
    /\ steps' = steps + 1
    /\ KeepDB
    /\ UNCHANGED <<workers, connections, sockets>>

\* the handler of thread t commits d and goes on as w
Commit(t, d, w) ==
    /\ SetDB([d EXCEPT !.now = @ + 1])
    /\ SetWorker(t, w)
    /\ UNCHANGED <<resp, steps, connections, sockets>>

\* the handler of thread t takes a request, commits d and goes on as w
Begin(t, d, w) ==
    /\ SetDB([d EXCEPT !.now = @ + 1])
    /\ SetWorker(t, w)
    /\ steps' = steps + 1
    /\ UNCHANGED <<resp, connections, sockets>>

\* the handler of thread t reads and goes on as w
Read(t, w) ==
    /\ SetWorker(t, w)
    /\ KeepDB
    /\ UNCHANGED <<resp, steps, connections, sockets>>

\* the handler of thread t commits d and returns r
End(t, d, r) ==
    /\ SetDB([d EXCEPT !.now = @ + 1])
    /\ SetWorker(t, Idle)
    /\ resp' = r
    /\ UNCHANGED <<steps, connections, sockets>>

(* approve_quote *)
\* lines 147-150: db.get, the ownership test, mark_quote_status(Approved)
ApproveBegin(t) ==
    /\ Free(t)
    /\ \E u \in Callers({ROLE_CLIENT}), q \in QuoteIds :
        IF ~HasRole(u, {ROLE_CLIENT}) \/ QuoteHidden(DB, u, q)
        THEN Refuse(approve_quote(DB, u, q, TRUE).r)
        ELSE Begin(t, mark_quote_status(DB, q, "Approved"),
                   [Idle EXCEPT !.op = "approve_quote", !.pc = "ensure",
                                !.user = u, !.arg = q])

\* ensure_job_for_request, line 17: if request.job
ApproveEnsureRead(t) ==
    /\ workers[t].op = "approve_quote" /\ workers[t].pc = "ensure"
    /\ LET seen == JobOf(DB, quotes[workers[t].arg].request_id)
       IN  Read(t, [workers[t] EXCEPT
                      !.pc = "insert", !.seen = seen,
                      !.loaded = IF seen # NULL THEN jobs[seen].status ELSE "New"])

\* ensure_job_for_request, lines 18-24: return request.job, or add and commit
ApproveEnsureWrite(t) ==
    /\ workers[t].op = "approve_quote" /\ workers[t].pc = "insert"
    /\ LET r == quotes[workers[t].arg].request_id
       IN  Commit(t, EnsureJobWrite(DB, r, workers[t].seen),
                  [workers[t] EXCEPT
                      !.pc = "reset", !.obj = EnsureJobResult(DB, r, workers[t].seen)])

\* lines 152-154: job.status = "New" is flushed when it differs from the
\* status the Session loaded
ApproveReset(t) ==
    /\ workers[t].op = "approve_quote" /\ workers[t].pc = "reset"
    /\ Commit(t, IF workers[t].loaded = "New" THEN DB
                 ELSE ApproveResetJob(DB, workers[t].obj),
              [workers[t] EXCEPT !.pc = "mail"])

\* lines 155-165: send_email, log_action, set_flash (NameError)
ApproveEnd(t) ==
    /\ workers[t].op = "approve_quote" /\ workers[t].pc = "mail"
    /\ \E mail_ok \in BOOLEAN :
        LET w == workers[t]
        IN  IF mail_ok
            THEN End(t, log_action(DB, w.user, "quote_approved", "quote", w.arg),
                     Response("approve_quote", w.user, w.arg, 500, "NameError: request",
                              w.obj))
            ELSE End(t, DB,
                     Response("approve_quote", w.user, w.arg, 500, "send_email raised", w.obj))

(* generate_invoice *)
\* lines 211-222: db.get, the status test, job.invoice, models.Invoice(...)
InvoiceBegin(t) ==
    /\ Free(t)
    /\ \E u \in Callers(Staff), j \in JobIds :
        IF ~HasRole(u, Staff) \/ NotInvoiceable(DB, j) \/ InvoiceOf(DB, j) # NULL
        THEN Refuse(generate_invoice(DB, u, j, TRUE).r)
        ELSE /\ SetWorker(t, [Idle EXCEPT !.op = "generate_invoice", !.pc = "insert",
                                          !.user = u, !.arg = j,
                                          !.row = InvoiceRow(DB, j)])
             /\ KeepDB
             /\ steps' = steps + 1
             /\ UNCHANGED <<resp, connections, sockets>>

\* lines 223-225: db.add(invoice); db.commit(); db.refresh(invoice)
InvoiceInsert(t) ==
    /\ workers[t].op = "generate_invoice" /\ workers[t].pc = "insert"
    /\ Commit(t, AddInvoice(DB, workers[t].row),
              [workers[t] EXCEPT !.pc = "render", !.obj = Len(invoices) + 1])

\* line 226: generate_invoice_pdf(db, invoice)
InvoiceRender(t) ==
    /\ workers[t].op = "generate_invoice" /\ workers[t].pc = "render"
    /\ \E render_ok \in BOOLEAN :
        LET w == workers[t]
        IN  IF render_ok
            THEN Commit(t, generate_invoice_pdf(DB, w.obj), [w EXCEPT !.pc = "log"])
            ELSE End(t, DB, Response("generate_invoice", w.user, w.arg, 500,
                                     "generate_invoice_pdf raised", w.obj))

\* lines 227-229: log_action, the flash, the redirect
InvoiceEnd(t) ==
    /\ workers[t].op = "generate_invoice" /\ workers[t].pc = "log"
    /\ LET w == workers[t]
       IN  End(t, log_action(DB, w.user, "invoice_generated", "invoice", w.obj),
               Response("generate_invoice", w.user, w.arg, 302, "Invoice generated.", w.obj))

(* update_quote *)
\* lines 95-98 and create_or_update_quote line 34: db.get, request.quote
UpdateBegin(t) ==
    /\ Free(t)
    /\ \E u \in Callers(Staff), q \in QuoteIds, p \in UnitPrices :
        IF ~HasRole(u, Staff) \/ Get(quotes, q) = NULL
        THEN Refuse(update_quote(DB, u, q, p).r)
        ELSE /\ SetWorker(t, [Idle EXCEPT !.op = "update_quote", !.pc = "write",
                                          !.user = u, !.arg = q, !.price = p,
                                          !.seen = QuoteOf(DB, quotes[q].request_id)])
             /\ KeepDB
             /\ steps' = steps + 1
             /\ UNCHANGED <<resp, connections, sockets>>

\* create_or_update_quote, lines 33-54: update in place or add, and commit
UpdateWrite(t) ==
    /\ workers[t].op = "update_quote" /\ workers[t].pc = "write"
    /\ LET w == workers[t]
           r == quotes[w.arg].request_id
       IN  Commit(t, WriteQuote(DB, r, w.seen, quotes[w.arg].word_count,
                                QuotePrice(DB, r, w.price), DEFAULT_CURRENCY),
                  [w EXCEPT !.pc = "log"])

\* lines 99-101: log_action, the flash, the redirect
UpdateEnd(t) ==
    /\ workers[t].op = "update_quote" /\ workers[t].pc = "log"
    /\ LET w == workers[t]
       IN  End(t, log_action(DB, w.user, "quote_updated", "quote", w.arg),
               Response("update_quote", w.user, w.arg, 302, "Quote updated.", w.arg))

\* a handler with one commit point, served while the others are in flight
ServeBetween ==
    /\ \E t \in Threads : workers[t].pc # "idle"
    /\ \/ SendQuote
       \/ RejectQuote
       \/ AssignJob
       \/ ReturnJob

NextConc ==
    \/ \E t \in Threads : ApproveBegin(t)
    \/ \E t \in Threads : ApproveEnsureRead(t)
    \/ \E t \in Threads : ApproveEnsureWrite(t)
    \/ \E t \in Threads : ApproveReset(t)
    \/ \E t \in Threads : ApproveEnd(t)
    \/ \E t \in Threads : InvoiceBegin(t)
    \/ \E t \in Threads : InvoiceInsert(t)
    \/ \E t \in Threads : InvoiceRender(t)
    \/ \E t \in Threads : InvoiceEnd(t)
    \/ \E t \in Threads : UpdateBegin(t)
    \/ \E t \in Threads : UpdateWrite(t)
    \/ \E t \in Threads : UpdateEnd(t)
    \/ ServeBetween

SpecConc == InitConc /\ [][NextConc]_vars

(***************************************************************************)
(* services/files.py: message text is a sequence of characters             *)
(***************************************************************************)
MaxMessageLen == 1000       \* text.strip()[:1000]

Whitespace == {" ", "\n", "\t"}

RECURSIVE LStrip(_)
LStrip(text) ==
    IF text # <<>> /\ Head(text) \in Whitespace THEN LStrip(Tail(text)) ELSE text

RECURSIVE RStrip(_)
RStrip(text) ==
    IF text # <<>> /\ text[Len(text)] \in Whitespace
    THEN RStrip(SubSeq(text, 1, Len(text) - 1))
    ELSE text

\* str.strip() that strips nothing
StripNothing(text) == text

\* str.strip()
Strip(text) == RStrip(LStrip(text))

\* text[:n]
Truncate(text, n) == IF Len(text) <= n THEN text ELSE SubSeq(text, 1, n)

EscapeChar(c) ==
    CASE c = "&"  -> <<"&", "a", "m", "p", ";">>
      [] c = "<"  -> <<"&", "l", "t", ";">>
      [] c = ">"  -> <<"&", "g", "t", ";">>
      [] c = "\"" -> <<"&", "q", "u", "o", "t", ";">>
      [] c = "'"  -> <<"&", "#", "x", "2", "7", ";">>
      [] OTHER    -> <<c>>

\* html.escape(text): every character replaced by its escape.  The text is
\* halved rather than walked from the head, so that a text of
\* MaxMessageLen characters is evaluated at a depth of about ten.
RECURSIVE HtmlEscape(_)
HtmlEscape(text) ==
    IF Len(text) = 0 THEN <<>>
    ELSE IF Len(text) = 1 THEN EscapeChar(text[1])
    ELSE LET h == Len(text) \div 2
         IN  HtmlEscape(SubSeq(text, 1, h)) \o HtmlEscape(SubSeq(text, h + 1, Len(text)))

\* text.replace("\n", "<br>")
RECURSIVE BreakLines(_)
BreakLines(text) ==
    IF Len(text) = 0 THEN <<>>
    ELSE IF Len(text) = 1
    THEN (IF text[1] = "\n" THEN <<"<", "b", "r", ">">> ELSE text)
    ELSE LET h == Len(text) \div 2
         IN  BreakLines(SubSeq(text, 1, h)) \o BreakLines(SubSeq(text, h + 1, Len(text)))

sanitize_message(text) == BreakLines(HtmlEscape(Truncate(Strip(text), MaxMessageLen)))

(***************************************************************************)
(* dependencies.py                                                         *)
(***************************************************************************)
\* require_job_participant without line 68-69 (managers and admins)
JobParticipantNoStaff(d, user, j) ==
    \/ d.requests[d.jobs[j].request_id].client_id = user
    \/ d.jobs[j].translator_id # NULL /\ d.jobs[j].translator_id = user

\* require_job_participant, lines 62-70: the user is let through
JobParticipant(d, user, j) ==
    \/ d.requests[d.jobs[j].request_id].client_id = user
    \/ d.jobs[j].translator_id # NULL /\ d.jobs[j].translator_id = user
    \/ UserRole[user] \in {ROLE_MANAGER, ROLE_ADMIN}

(***************************************************************************)
(* routers/jobs.py: the job channel.  sockets[s] is the s-th WebSocket     *)
(* the server was handed: the job id of its path, the user id of its       *)
(* session, whether it is open, the code job_ws closed it with, and what   *)
(* was sent to it.                                                         *)
(* connections is connection_manager.connections.                          *)
(***************************************************************************)
MaxSockets == 2
MaxEvents == 3

WS_POLICY_VIOLATION == 1008     \* websocket.close(code=1008)

NewSocket(job_id, user_id) ==
    [job_id |-> job_id, user_id |-> user_id, state |-> "open", code |-> NULL,
     inbox |-> <<>>]

Closed(sock, code) == [sock EXCEPT !.state = "closed", !.code = code]

\* ConnectionManager.connect that puts the newcomer first
connectFirst(conns, job_id, s) ==
    [j \in DOMAIN conns \cup {job_id} |->
        IF j # job_id THEN conns[j]
        ELSE <<s>> \o (IF j \in DOMAIN conns THEN conns[j] ELSE <<>>)]

\* ConnectionManager.connect: setdefault(job_id, []).append(websocket)
connect(conns, job_id, s) ==
    [j \in DOMAIN conns \cup {job_id} |->
        IF j # job_id THEN conns[j]
        ELSE Append(IF j \in DOMAIN conns THEN conns[j] ELSE <<>>, s)]

\* ConnectionManager.disconnect
disconnect(conns, job_id, s) ==
    IF job_id \notin DOMAIN conns THEN conns
    ELSE LET rest == SelectSeq(conns[job_id], LAMBDA c : c # s)
         IN  IF rest = <<>>
             THEN [j \in DOMAIN conns \ {job_id} |-> conns[j]]
             ELSE [conns EXCEPT ![job_id] = rest]

\* the sends of a broadcast, in list order: send_json on a closed WebSocket
\* raises and the loop is left
RECURSIVE SendAll(_, _, _)
SendAll(socks, list, message) ==
    IF list = <<>> THEN [sockets |-> socks, raised |-> FALSE]
    ELSE IF socks[Head(list)].state # "open" THEN [sockets |-> socks, raised |-> TRUE]
    ELSE SendAll([socks EXCEPT ![Head(list)].inbox = Append(@, message)],
                 Tail(list), message)

\* ConnectionManager.broadcast
broadcast(socks, conns, job_id, message) ==
    SendAll(socks, IF job_id \in DOMAIN conns THEN conns[job_id] ELSE <<>>, message)

\* job_ws, lines 132-143: the caller is admitted to the job's channel
Admitted(d, user_id, job_id) ==
    /\ user_id # NULL
    /\ GetUser(user_id) # NULL
    /\ Get(d.jobs, job_id) # NULL
    /\ can_view_job(d, user_id, job_id)

NewMessage(d, job_id, user, text) ==
    [job_id |-> job_id, user_id |-> user, text |-> text, created_at |-> d.now]

\* a log that keeps the newest Message only
AddMessageOnly(d, job_id, user, text) ==
    [d EXCEPT !.messages = <<[job_id |-> job_id, user_id |-> user, text |-> text,
                              created_at |-> d.now]>>]

AddMessage(d, job_id, user, text) ==
    [d EXCEPT !.messages = Append(@, NewMessage(d, job_id, user, text))]

Payload(d, m) ==
    [id |-> m, user |-> d.messages[m].user_id, text |-> d.messages[m].text,
     created_at |-> d.messages[m].created_at]

\* post_message: the store and the sockets it leaves, and its response
post_message(d, socks, conns, user, job_id, text, json) ==
    IF Get(d.jobs, job_id) = NULL
    THEN [d |-> d, sockets |-> socks,
          r |-> Response("post_message", user, job_id, 404, "Job not found", NULL)]
    ELSE IF ~JobParticipant(d, user, job_id)
    THEN [d |-> d, sockets |-> socks,
          r |-> Response("post_message", user, job_id, 403,
                         "Not authorized for this job", NULL)]
    ELSE IF sanitize_message(text) = <<>>
    THEN [d |-> d, sockets |-> socks,
          r |-> IF json
                THEN Response("post_message", user, job_id, 400,
                              "Message cannot be empty", NULL)
                ELSE Response("post_message", user, job_id, 302,
                              "Cannot send empty message.", NULL)]
    ELSE LET d1 == AddMessage(d, job_id, user, sanitize_message(text))
             m == Len(d1.messages)
             d2 == log_action(d1, user, "message_posted", "job", job_id)
             sent == broadcast(socks, conns, job_id, Payload(d1, m))
         IN  [d |-> d2, sockets |-> sent.sockets,
              r |-> IF sent.raised
                    THEN Response("post_message", user, job_id, 500,
                                  "send_json raised", m)
                    ELSE Response("post_message", user, job_id,
                                  IF json THEN 200 ELSE 302, "", m)]

MessageTexts == {<<" ", "\n">>, <<"h", "i">>, <<" ", "<", "\n", "a", " ">>}
\* the session of a WebSocket: no user_id, a user_id that is no row, the
\* manager, both translators, a client
SessionUsers == {NULL, Len(UserRole) + 1, 1, 2, 3, 4}
\* who posts over HTTP: the manager, a translator, a client who is no
\* participant
ChanPosters == {1, 2, 5}

\* the channel is opened on a job nobody is assigned to and on an assigned
\* job
ChanRuns == {Run3, Run4}

InitChan ==
    /\ \E d \in ChanRuns : StoreIs(d)
    /\ resp = NoResponse
    /\ steps = 0
    /\ workers = <<>>
    /\ connections = <<>>
    /\ sockets = <<>>

\* the receive loop persisting and broadcasting the text as received
ws_receive_raw(d, socks, conns, s, text) ==
    LET d1 == AddMessage(d, socks[s].job_id, socks[s].user_id, text)
    IN  [d |-> d1,
         sockets |-> broadcast(socks, conns, socks[s].job_id,
                               Payload(d1, Len(d1.messages))).sockets]

\* job_ws, lines 145-159, one turn of the receive loop on socket s: the
\* store and the sockets it leaves.  When the broadcast raises, the handler
\* ends (finally: db.close()) and its socket is closed, still registered.
ws_receive(d, socks, conns, s, text) ==
    IF sanitize_message(text) = <<>>
    THEN [d |-> d, sockets |-> socks]
    ELSE LET d1 == AddMessage(d, socks[s].job_id, socks[s].user_id,
                              sanitize_message(text))
             sent == broadcast(socks, conns, socks[s].job_id,
                               Payload(d1, Len(d1.messages)))
         IN  [d |-> d1,
              sockets |-> IF sent.raised
                          THEN [sent.sockets EXCEPT ![s] = Closed(@, NULL)]
                          ELSE sent.sockets]

\* A broadcast suspended at `await connection.send_json(...)` iterates the
\* list object it took from connections[job_id].  connect appends to that
\* object in place, so the loop sees the newcomer; disconnect binds a new
\* list, so the loop goes on over the old one.  `live`: the loop's list is
\* still the one bound in connections.
Joined(ws, job_id, s) ==
    [c \in DOMAIN ws |->
        IF ws[c].op # "idle" /\ ws[c].live /\ ws[c].job_id = job_id
        THEN [ws[c] EXCEPT !.list = Append(@, s)]
        ELSE ws[c]]

Unbound(ws, job_id) ==
    [c \in DOMAIN ws |->
        IF ws[c].op # "idle" /\ ws[c].job_id = job_id
        THEN [ws[c] EXCEPT !.live = FALSE]
        ELSE ws[c]]

\* the handler of socket s is inside its own broadcast
Sending(s) == \E c \in DOMAIN workers : workers[c].op # "idle" /\ workers[c].sock = s

\* job_ws up to its first receive_text: connect, then the admission tests
WsConnect ==
    /\ steps < MaxEvents
    /\ Len(sockets) < MaxSockets
    /\ \E job_id \in JobIds, user_id \in SessionUsers :
        /\ sockets' = Append(sockets,
                IF Admitted(DB, user_id, job_id)
                THEN NewSocket(job_id, user_id)
                ELSE Closed(NewSocket(job_id, user_id), WS_POLICY_VIOLATION))
        /\ connections' = connect(connections, job_id, Len(sockets) + 1)
        /\ workers' = Joined(workers, job_id, Len(sockets) + 1)
    /\ steps' = steps + 1
    /\ KeepDB
    /\ UNCHANGED resp

\* job_ws, lines 160-161: receive_text raises WebSocketDisconnect
WsDisconnect ==
    /\ steps < MaxEvents
    /\ \E s \in DOMAIN sockets :
        /\ sockets[s].state = "open"
        /\ ~Sending(s)
        /\ sockets' = [sockets EXCEPT ![s] = Closed(@, NULL)]
        /\ connections' = disconnect(connections, sockets[s].job_id, s)
        /\ workers' = Unbound(workers, sockets[s].job_id)
    /\ steps' = steps + 1
    /\ KeepDB
    /\ UNCHANGED resp

\* job_ws, lines 145-159: one turn of the receive loop
WsReceive ==
    /\ steps < MaxEvents
    /\ \E s \in DOMAIN sockets, text \in MessageTexts :
        /\ sockets[s].state = "open"
        /\ LET out == ws_receive(DB, sockets, connections, s, text)
           IN  /\ IF out.d = DB THEN KeepDB ELSE SetDB(Served(out))
               /\ sockets' = out.sockets
    /\ steps' = steps + 1
    /\ UNCHANGED <<resp, workers, connections>>

PostMessage ==
    /\ steps < MaxEvents
    /\ \E user \in ChanPosters, job_id \in JobIds, text \in MessageTexts,
          json \in BOOLEAN :
        LET out == post_message(DB, sockets, connections, user, job_id, text, json)
        IN  /\ SetDB(Served(out))
            /\ sockets' = out.sockets
            /\ resp' = out.r
    /\ steps' = steps + 1
    /\ UNCHANGED <<workers, connections>>

NextChan ==
    \/ WsConnect
    \/ WsDisconnect
    \/ WsReceive
    \/ PostMessage

SpecChan == InitChan /\ [][NextChan]_vars

(***************************************************************************)
(* The job channel while the manager changes the assignment: assign_job    *)
(* served between two events of the channel.                               *)
(***************************************************************************)
LiveAssign ==
    /\ steps < MaxEvents
    /\ \E j \in Ids(jobs), t \in Translators \cup {NULL} :
        LET out == assign_job(DB, 1, j, t, None, None, TRUE)
        IN  /\ SetDB(Served(out))
            /\ resp' = out.r
    /\ steps' = steps + 1
    /\ UNCHANGED <<workers, connections, sockets>>

NextLive ==
    \/ NextChan
    \/ LiveAssign

SpecLive == InitChan /\ [][NextLive]_vars

(***************************************************************************)
(* routers/jobs.py with broadcasts interleaved: post_message and job_ws    *)
(* are coroutines of one event loop, and a broadcast can be suspended at   *)
(* each `await connection.send_json(...)` while another coroutine runs.    *)
(* workers[c] is the broadcast coroutine c is in: its handler, caller, job *)
(* and sending socket, the payload, the list it iterates, whether that     *)
(* list is still bound in connections, the index of its next send, and the *)
(* length the list had when broadcast was called.                          *)
(***************************************************************************)
MaxCasts == 2
Casts == 1 .. MaxCasts

NoPayload == [id |-> NULL, user |-> NULL, text |-> <<>>, created_at |-> NULL]

NoCast == [op |-> "idle", user |-> NULL, job_id |-> NULL, sock |-> NULL,
           json |-> FALSE, message |-> NoPayload, list |-> <<>>, live |-> FALSE,
           pos |-> 0, called |-> 0]

\* connection_manager.broadcast(job_id, payload) is called
NewCast(op, user, job_id, sock, json, message, conns) ==
    LET list == IF job_id \in DOMAIN conns THEN conns[job_id] ELSE <<>>
    IN  [op |-> op, user |-> user, job_id |-> job_id, sock |-> sock, json |-> json,
         message |-> message, list |-> list, live |-> job_id \in DOMAIN conns,
         pos |-> 1, called |-> Len(list)]

\* the loop of broadcast up to its next suspension: the list is exhausted,
\* or send_json raises on a closed socket, or the message is sent
Advance(socks, w) ==
    IF w.pos > Len(w.list)
    THEN [status |-> "done", sockets |-> socks, w |-> NoCast]
    ELSE IF socks[w.list[w.pos]].state # "open"
    THEN [status |-> "raised", sockets |-> socks, w |-> NoCast]
    ELSE [status |-> "sent",
          sockets |-> [socks EXCEPT ![w.list[w.pos]].inbox = Append(@, w.message)],
          w |-> [w EXCEPT !.pos = @ + 1]]

\* what the handler does with the outcome: post_message answers (lines
\* 101-103, or a 500 when the exception leaves it); job_ws goes back to
\* receive_text, or ends with its socket closed and still registered
Settle(c, socks, w) ==
    LET a == Advance(socks, w)
    IN  /\ workers' = [workers EXCEPT ![c] = a.w]
        /\ sockets' = IF a.status = "raised" /\ w.op = "job_ws"
                      THEN [a.sockets EXCEPT ![w.sock] = Closed(@, NULL)]
                      ELSE a.sockets
        /\ resp' = IF a.status = "sent" \/ w.op = "job_ws" THEN resp
                   ELSE IF a.status = "raised"
                   THEN Response("post_message", w.user, w.job_id, 500,
                                 "send_json raised", w.message.id)
                   ELSE Response("post_message", w.user, w.job_id,
                                 IF w.json THEN 200 ELSE 302, "", w.message.id)

CastSockets == <<NewSocket(1, 1), NewSocket(1, 4)>>
CastConnections == connect(connect(<<>>, 1, 1), 1, 2)

\* the channel of the assigned Job: nobody connected, or the manager and the
\* client connected
InitCast ==
    /\ StoreIs(Run4)
    /\ resp = NoResponse
    /\ steps = 0
    /\ workers = [c \in Casts |-> NoCast]
    /\ \/ connections = <<>> /\ sockets = <<>>
       \/ connections = CastConnections /\ sockets = CastSockets

\* a request is taken by the first coroutine slot that is free
FreeCast(c) ==
    /\ steps < MaxEvents
    /\ workers[c].op = "idle"
    /\ \A b \in Casts : b < c => workers[b].op # "idle"

\* who posts while broadcasts are in flight: the manager and a client who
\* is no participant (the page's script asks for JSON)
Posters == {1, 5}
CastTexts == {<<" ", "\n">>, <<"h", "i">>}

\* post_message up to the first suspension of its broadcast
PostBegin(c) ==
    /\ FreeCast(c)
    /\ \E user \in Posters, job_id \in JobIds, text \in CastTexts, json \in {TRUE} :
        IF \/ Get(jobs, job_id) = NULL
           \/ ~JobParticipant(DB, user, job_id)
           \/ sanitize_message(text) = <<>>
        THEN /\ resp' = post_message(DB, sockets, connections, user, job_id, text, json).r
             /\ KeepDB
             /\ UNCHANGED <<workers, sockets>>
        ELSE LET d1 == AddMessage(DB, job_id, user, sanitize_message(text))
                 d2 == log_action(d1, user, "message_posted", "job", job_id)
             IN  /\ SetDB([d2 EXCEPT !.now = @ + 1])
                 /\ Settle(c, sockets,
                           NewCast("post_message", user, job_id, NULL, json,
                                   Payload(d1, Len(d1.messages)), connections))
    /\ steps' = steps + 1
    /\ UNCHANGED connections

\* job_ws: receive_text returns, up to the first suspension of the broadcast
RecvBegin(c) ==
    /\ FreeCast(c)
    /\ \E s \in DOMAIN sockets, text \in CastTexts :
        /\ sockets[s].state = "open"
        /\ ~Sending(s)
        /\ IF sanitize_message(text) = <<>>
           THEN /\ KeepDB
                /\ UNCHANGED <<workers, sockets, resp>>
           ELSE LET d1 == AddMessage(DB, sockets[s].job_id, sockets[s].user_id,
                                     sanitize_message(text))
                IN  /\ SetDB([d1 EXCEPT !.now = @ + 1])
                    /\ Settle(c, sockets,
                              NewCast("job_ws", sockets[s].user_id, sockets[s].job_id,
                                      s, FALSE, Payload(d1, Len(d1.messages)),
                                      connections))
    /\ steps' = steps + 1
    /\ UNCHANGED connections

\* the suspended broadcast of coroutine c is resumed
CastResume(c) ==
    /\ workers[c].op # "idle"
    /\ Settle(c, sockets, workers[c])
    /\ KeepDB
    /\ UNCHANGED <<steps, connections>>

NextCast ==
    \/ WsConnect
    \/ WsDisconnect
    \/ \E c \in Casts : PostBegin(c)
    \/ \E c \in Casts : RecvBegin(c)
    \/ \E c \in Casts : CastResume(c)

SpecCast == InitCast /\ [][NextCast]_vars

(***************************************************************************)
(* Claims about the order lifecycle, checked under Spec.                   *)
(***************************************************************************)
\* the handler of this step got past its role gate and found its row
Passed(r) == r.code \notin {403, 404}

\* C2: in every reachable state, every Request that has a Job has the Job's
\* status.
C2_RequestMirrorsJob ==
    \A r \in Ids(requests) : \A j \in JobsOf(DB, r) :
        requests[r].status = jobs[j].status

JobActions == {"assign_job", "start_job", "deliver_job", "accept_job", "return_job"}

JobEdges ==
    {<<"New", "Assigned">>, <<"Assigned", "InProgress">>, <<"InProgress", "Delivered">>,
     <<"Delivered", "Accepted">>, <<"Delivered", "Assigned">>, <<"Accepted", "Assigned">>}

\* C3: every change of Job.status made by assign, start, deliver,
\* accept or return follows an edge of New -> Assigned -> InProgress ->
\* Delivered -> Accepted or the return edge back to Assigned.
C3_JobStatusFollowsEdges ==
    [][resp'.op \in JobActions =>
         \A j \in Ids(jobs) :
            jobs'[j].status # jobs[j].status =>
                <<jobs[j].status, jobs'[j].status>> \in JobEdges]_vars

QuoteEdges == {<<"Draft", "Sent">>, <<"Sent", "Approved">>, <<"Sent", "Rejected">>}

\* C4: every change of Quote.status is Draft -> Sent, Sent -> Approved or
\* Sent -> Rejected, so an Approved or Rejected Quote never changes status.
C4_QuoteStatusFollowsEdges ==
    [][\A q \in Ids(quotes) :
         quotes'[q].status # quotes[q].status =>
            <<quotes[q].status, quotes'[q].status>> \in QuoteEdges]_vars

\* C5: every Job belongs to a Request that has a Quote, and every step that
\* creates a Job is an approval of that Request's Quote, which it leaves
\* Approved.
C5_JobOnlyByApproval ==
    /\ [](\A j \in Ids(jobs) : QuotesOf(DB, jobs[j].request_id) # {})
    /\ [][\A j \in Ids(jobs') \ Ids(jobs) :
            /\ resp'.op = "approve_quote"
            /\ resp'.arg \in Ids(quotes)
            /\ quotes[resp'.arg].request_id = jobs'[j].request_id
            /\ quotes'[resp'.arg].status = "Approved"]_vars

\* C5 witness: an approval has just created the second Job of the store.
C5_Witness ==
    /\ resp.op = "approve_quote" /\ Passed(resp)
    /\ Len(jobs) = 2 /\ resp.obj = 2

\* audit entries of approvals of quote q
Approvals(q) ==
    {i \in DOMAIN audit_logs :
        audit_logs[i].action = "quote_approved" /\ audit_logs[i].object_id = q}

\* C6: an approval leaves exactly one Job for the Request and yields it; an
\* approval of a Quote whose Request already has a Job adds no Job and yields
\* the Job the earlier approval yielded; ensure_job_for_request applied twice
\* gives the store and the Job id of applying it once.
C6_ApproveIdempotent ==
    /\ [](\A r \in Ids(requests) :
            LET d1 == ensure_job_for_request(DB, r)
            IN  /\ ensure_job_for_request(d1, r) = d1
                /\ Cardinality(JobsOf(d1, r)) = 1
                /\ EnsureJobResult(d1, r, JobOf(d1, r))
                      = EnsureJobResult(DB, r, JobOf(DB, r)))
    /\ [][(resp'.op = "approve_quote" /\ Passed(resp')) =>
            LET r == quotes[resp'.arg].request_id
                after == {j \in Ids(jobs') : jobs'[j].request_id = r}
            IN  /\ after = {resp'.obj}
                /\ JobOf(DB, r) # NULL =>
                      resp'.obj = JobOf(DB, r) /\ Len(jobs') = Len(jobs)]_vars

\* C6 witness: the same Quote has been approved twice and its Request has one Job.
C6_Witness ==
    /\ resp.op = "approve_quote" /\ Passed(resp)
    /\ Cardinality(Approvals(resp.arg)) >= 2
    /\ Cardinality(JobsOf(DB, quotes[resp.arg].request_id)) = 1

\* C7: an approval of a Quote whose Request already has a Job leaves every
\* field of that Job as it was.
C7_ApproveKeepsJob ==
    [][(resp'.op = "approve_quote" /\ Passed(resp')) =>
         LET j == JobOf(DB, quotes[resp'.arg].request_id)
         IN  j # NULL => jobs'[j] = jobs[j]]_vars

\* generate_invoice was called by a manager on a Job that has an Invoice
Reinvoice(r) ==
    /\ r.op = "generate_invoice" /\ r.code # 403
    /\ Get(jobs, r.arg) # NULL
    /\ InvoicesOf(DB, r.arg) # {}

C8_OneJobOneQuote ==
    \A r \in Ids(requests) :
        /\ Cardinality(JobsOf(DB, r)) <= 1
        /\ Cardinality(QuotesOf(DB, r)) <= 1

\* C10: in every reachable state there is at most one Invoice per Job, also
\* when two generate_invoice requests for the same Job both read the Job
\* before either commits.
C10_OneInvoicePerJob ==
    \A j \in Ids(jobs) : Cardinality(InvoicesOf(DB, j)) <= 1

(***************************************************************************)
(* Claims about the job channel, checked under SpecChan.                   *)
(***************************************************************************)
Registered(s) == \E j \in DOMAIN connections : \E i \in DOMAIN connections[j] :
                    connections[j][i] = s

\* C1: a connection whose caller fails admission (no session user, unknown
\* user, missing Job, or can_view_job false) is in the connection registry
\* in no state and is sent no broadcast: it is closed with the policy
\* violation code before it is registered.
C1_RejectedNeverRegistered ==
    \A s \in DOMAIN sockets :
        ~Admitted(DB, sockets[s].user_id, sockets[s].job_id) =>
            /\ ~Registered(s)
            /\ sockets[s].inbox = <<>>
            /\ sockets[s].code = WS_POLICY_VIOLATION

(***************************************************************************)
(* Claims about invoicing and assignment, checked under Spec.              *)
(***************************************************************************)

\* C11: when rendering failed during generate_invoice the Invoice is left
\* Draft, and a later generate_invoice for the same Job that is served
\* without error brings that Invoice to Issued.
C11_RenderRetryIssues ==
    [][(resp'.op = "generate_invoice" /\ resp'.code = 302) =>
          \A i \in InvoicesOf(DB, resp'.arg) :
              invoices[i].status = "Draft" => invoices'[i].status = "Issued"]_vars

WrongRole == {u \in Users : UserRole[u] # ROLE_TRANSLATOR}

\* C12: assign_translator raises for every user whose role is not
\* translator; assign_job with such a user is refused (400) whatever the Job
\* and the form, with "Selected user is not a translator" when the due date
\* parses; and a refused assignment leaves the Job's translator, status, due
\* date, notes and manager comment, and the Request's status, as they were.
C12_WrongRoleRefused ==
    /\ [](\A u \in Managers, j \in Ids(jobs), t \in WrongRole, f \in AssignForms,
             ok \in BOOLEAN :
            LET out == assign_job(DB, u, j, t, f[1], f[2], ok)
            IN  /\ AssignRaises(t)
                /\ out.r.code = 400
                /\ ~BadDate(f[1]) => out.r.detail = "Selected user is not a translator"
                /\ out.d = DB)
    /\ [][(resp'.op = "assign_job" /\ resp'.code = 400) =>
            /\ jobs' = jobs
            /\ requests' = requests
            /\ audit_logs' = audit_logs]_vars

\* C12 witness: an assignment of an Assigned Job to a client has just been
\* refused, and the Job still has its translator.
C12_Witness ==
    /\ resp.op = "assign_job" /\ resp.code = 400
    /\ resp.detail = "Selected user is not a translator"
    /\ jobs[resp.arg].status = "Assigned"
    /\ jobs[resp.arg].translator_id \in Translators

(***************************************************************************)
(* Claims about broadcasts, checked under SpecChan.                        *)
(***************************************************************************)
Received(sock, m) == \E k \in DOMAIN sock.inbox : sock.inbox[k].id = m

\* C13: a send that fails is swallowed and the broadcast goes on: when a
\* message is persisted and broadcast, every open connection in the Job's
\* list at that time is sent it.
C13_FailedSendSwallowed ==
    [][Len(messages') > Len(messages) =>
          LET m == Len(messages')
          IN  \A s \in DOMAIN sockets :
                (/\ sockets[s].state = "open"
                 /\ sockets[s].job_id = messages'[m].job_id
                 /\ Registered(s))
                    => Received(sockets'[s], m)]_vars

\* C14: post_message with non-empty sanitized text persists the Message and
\* answers success whatever the state of the subscribers: every post that
\* persisted a Message is answered 200 (JSON) or 302 (redirect).
C14_PostSucceeds ==
    [][(resp'.op = "post_message" /\ Len(messages') > Len(messages)) =>
          resp'.code \in {200, 302}]_vars

\* C15: a connection that is closed (by the client, with the policy
\* violation code, or because its handler raised) is no longer in the
\* registry, so no later broadcast sends to it.
C15_ClosedDeregistered ==
    \A s \in DOMAIN sockets : sockets[s].state = "closed" => ~Registered(s)

(***************************************************************************)
(* Claims about the two posting paths, checked under SpecChan.             *)
(***************************************************************************)
Blank(text) == \A i \in DOMAIN text : text[i] \in Whitespace

OpenSockets == {s \in DOMAIN sockets : sockets[s].state = "open"}

EmptyNotices == {"Message cannot be empty", "Cannot send empty message."}

\* C19: a text is sanitized to the empty text exactly when it is blank, and
\* a blank text is rejected on both paths: post_message answers with the
\* empty-message notice and the receive loop goes on, and neither persists a
\* Message, sends anything, or changes the message log or the audit log
\* (neither path writes the registry).
C19_EmptyRejected ==
    \A text \in MessageTexts :
        /\ (sanitize_message(text) = <<>>) <=> Blank(text)
        /\ Blank(text) =>
            /\ \A s \in OpenSockets :
                  ws_receive(DB, sockets, connections, s, text)
                      = [d |-> DB, sockets |-> sockets]
            /\ \A user \in Users, j \in Ids(jobs), json \in BOOLEAN :
                  LET out == post_message(DB, sockets, connections, user, j,
                                          text, json)
                  IN  /\ out.d = DB
                      /\ out.sockets = sockets
                      /\ JobParticipant(DB, user, j) =>
                            out.r.detail \in EmptyNotices

\* C19 witness: a blank post to a Job with an open subscriber has just been
\* answered with the empty-message notice.
C19_Witness ==
    /\ resp.op = "post_message" /\ resp.detail \in EmptyNotices
    /\ \E s \in OpenSockets : sockets[s].job_id = resp.arg /\ Registered(s)

\* C20: for an author both paths admit, the same Job and the same text, one
\* turn of the receive loop and post_message leave the same messages table
\* (the same decision, and the same Message when accepted) and the same
\* payload in the same subscribers' inboxes.
C20_SamePipeline ==
    \A s \in OpenSockets, text \in MessageTexts, json \in BOOLEAN :
        LET user == sockets[s].user_id
            j == sockets[s].job_id
            live == ws_receive(DB, sockets, connections, s, text)
            sync == post_message(DB, sockets, connections, user, j, text, json)
        IN  JobParticipant(DB, user, j) =>
              /\ live.d.messages = sync.d.messages
              /\ \A t \in DOMAIN sockets :
                    live.sockets[t].inbox = sync.sockets[t].inbox

\* C20 witness: a subscriber has been sent two messages of the same author
\* and text, one persisted by post_message and one by the receive loop.
C20_Witness ==
    \E s \in OpenSockets : \E i, k \in DOMAIN sockets[s].inbox :
        /\ i < k
        /\ sockets[s].inbox[i].user = sockets[s].inbox[k].user
        /\ sockets[s].inbox[i].text = sockets[s].inbox[k].text
        /\ Cardinality({a \in DOMAIN audit_logs :
                          audit_logs[a].action = "message_posted"}) = 1

(***************************************************************************)
(* Claims about interleaved broadcasts, checked under SpecCast.            *)
(***************************************************************************)
InFlight == {c \in DOMAIN workers : workers[c].op # "idle"}

\* C16: a broadcast sends to the subscriber list as it was when broadcast
\* was called: it never makes more sends than that list had entries, so a
\* connection that registers while the broadcast is suspended is not sent
\* the message.
C16_BroadcastSnapshot ==
    \A c \in InFlight : workers[c].pos - 1 <= workers[c].called

\* C17: every subscriber receives a Job's messages in the order in which
\* they were persisted, under any interleaving of posts and inbound texts.
C17_ReceivedInPersistOrder ==
    \A s \in DOMAIN sockets :
        \A i, k \in DOMAIN sockets[s].inbox :
            i < k => sockets[s].inbox[i].id < sockets[s].inbox[k].id

\* list holds socket ids in the order the sockets were registered
InRegistrationOrder(list) == \A i, k \in DOMAIN list : i < k => list[i] < list[k]

\* C18: every message a subscriber has been sent is a persisted Message of
\* its Job, with the persisted author, text and time; the lists of the
\* registry are in registration order, and a broadcast visits its list in
\* that order: the sockets before its position have been sent the message,
\* those from its position on have not.
C18_PersistThenPushInOrder ==
    /\ \A s \in DOMAIN sockets : \A k \in DOMAIN sockets[s].inbox :
          LET p == sockets[s].inbox[k]
          IN  /\ p.id \in DOMAIN messages
              /\ messages[p.id].job_id = sockets[s].job_id
              /\ p = Payload(DB, p.id)
    /\ \A j \in DOMAIN connections : InRegistrationOrder(connections[j])
    /\ \A c \in InFlight :
          LET w == workers[c]
          IN  /\ InRegistrationOrder(w.list)
              /\ \A i \in DOMAIN w.list :
                    Received(sockets[w.list[i]], w.message.id) <=> i < w.pos

\* C18 witness: a broadcast over two subscribers is suspended after its send
\* to the first.
C18_Witness ==
    \E c \in InFlight :
        /\ Len(workers[c].list) = 2 /\ workers[c].pos = 2
        /\ Received(sockets[workers[c].list[1]], workers[c].message.id)
        /\ ~Received(sockets[workers[c].list[2]], workers[c].message.id)

(***************************************************************************)
(* Claims about who may see a Job, checked under Spec.                     *)
(***************************************************************************)
\* C21: in every reachable store, for every user and every Job,
\* require_job_participant lets the user through exactly when can_view_job
\* is true, and post_message refuses the user with 403 exactly when job_ws
\* would close the socket of that user on that Job.
C21_SameAdmission ==
    \A user \in Users, j \in Ids(jobs) :
        /\ JobParticipant(DB, user, j) <=> can_view_job(DB, user, j)
        /\ (post_message(DB, sockets, connections, user, j, <<"h", "i">>,
                         TRUE).r.code # 403)
              <=> Admitted(DB, user, j)

\* C21 witness: assign_job has just given a Job a translator; its client
\* and its translator are let through by both tests, the other client and
\* the other translator by neither.
C21_Witness ==
    /\ resp.op = "assign_job" /\ resp.code = 302
    /\ \E j \in Ids(jobs) : \E t, u \in Translators : \E c, e \in Clients :
            /\ jobs[j].translator_id = t /\ u # t
            /\ requests[jobs[j].request_id].client_id = c /\ e # c
            /\ \A x \in {t, c} : JobParticipant(DB, x, j) /\ can_view_job(DB, x, j)
            /\ \A x \in {u, e} : ~JobParticipant(DB, x, j) /\ ~can_view_job(DB, x, j)

\* C22: can_view_job is true for a manager or admin, true for a client
\* exactly when the Job's Request is theirs, true for a translator exactly
\* when the Job is assigned to them (so never on an unassigned Job), and
\* false for any other role.
C22_CanViewByRole ==
    \A user \in Users, j \in Ids(jobs) :
        LET role == UserRole[user]
            view == can_view_job(DB, user, j)
            owner == requests[jobs[j].request_id].client_id = user
        IN  /\ role \in {ROLE_MANAGER, ROLE_ADMIN} => view
            /\ role = ROLE_CLIENT => (view <=> owner)
            /\ role = ROLE_TRANSLATOR => (view <=> jobs[j].translator_id = user)
            /\ role = ROLE_TRANSLATOR /\ jobs[j].translator_id = NULL => ~view
            /\ role \notin {ROLE_MANAGER, ROLE_ADMIN, ROLE_CLIENT, ROLE_TRANSLATOR}
                  => ~view

\* C22 witness: approve_quote has just created a Job; it is unassigned, the
\* manager and its client can view it, no translator and no other client
\* can.
C22_Witness ==
    /\ resp.op = "approve_quote" /\ resp.detail = "NameError: request"
    /\ \E j \in {resp.obj} :
            /\ jobs[j].translator_id = NULL
            /\ \A m \in Managers : can_view_job(DB, m, j)
            /\ \A t \in Translators : ~can_view_job(DB, t, j)
            /\ \E c \in Clients : can_view_job(DB, c, j)
            /\ \E c \in Clients : ~can_view_job(DB, c, j)

(***************************************************************************)
(* Claims about the audit log and about what a failure leaves committed.   *)
(***************************************************************************)
\* C23: no store holds a state change without its audit entry: every
\* Invoice has its "invoice_generated" entry, every Quote that is Approved
\* its "quote_approved" entry, every Quote that is Sent its "quote_sent"
\* entry.
C23_ChangeWithAudit ==
    /\ \A i \in Ids(invoices) : \E a \in DOMAIN audit_logs :
          /\ audit_logs[a].action = "invoice_generated"
          /\ audit_logs[a].object_id = i
    /\ \A q \in Ids(quotes) :
          quotes[q].status \in {"Approved", "Sent"} =>
              \E a \in DOMAIN audit_logs :
                  /\ audit_logs[a].action
                        = (IF quotes[q].status = "Sent" THEN "quote_sent"
                                                       ELSE "quote_approved")
                  /\ audit_logs[a].object_id = q

\* C24: a step that persists a Message, on either path, appends exactly one
\* audit entry, naming the author and the Job.
C24_OneAuditPerMessage ==
    [][Len(messages') > Len(messages) =>
          /\ Len(audit_logs') = Len(audit_logs) + 1
          /\ audit_logs'[Len(audit_logs')].user_id
                = messages'[Len(messages')].user_id
          /\ audit_logs'[Len(audit_logs')].object_id
                = messages'[Len(messages')].job_id]_vars

\* C25: no store, the ones between two commits of approve_quote included,
\* has a Quote in status Approved whose Request has no Job.
C25_ApprovedHasJob ==
    \A q \in Ids(quotes) :
        quotes[q].status = "Approved" => JobOf(DB, quotes[q].request_id) # NULL

\* C26: a handler whose notification failed has left its state change
\* committed: after send_quote the Quote is Sent and its Request Quoted,
\* after approve_quote the Quote is Approved and its Request has a Job in
\* New, after assign_job the Job has its translator and, if it was New, is
\* Assigned with its Request, after deliver_job the Job and its Request are
\* Delivered.
C26_NotifyFailureKeepsChange ==
    [][resp'.detail = "send_email raised" =>
          LET a == resp'.arg
          IN  /\ resp'.op = "send_quote" =>
                    /\ quotes'[a].status = "Sent"
                    /\ requests'[quotes'[a].request_id].status = "Quoted"
              /\ resp'.op = "approve_quote" =>
                    /\ quotes'[a].status = "Approved"
                    /\ JobOf(DB', quotes'[a].request_id) = resp'.obj
                    /\ jobs'[resp'.obj].status = "New"
              /\ resp'.op = "assign_job" =>
                    /\ jobs'[a].translator_id \in Translators
                    /\ jobs[a].status = "New" =>
                          /\ jobs'[a].status = "Assigned"
                          /\ requests'[jobs'[a].request_id].status = "Assigned"
              /\ resp'.op = "deliver_job" =>
                    /\ jobs'[a].status = "Delivered"
                    /\ requests'[jobs'[a].request_id].status = "Delivered"]_vars

\* C26 witness: deliver_job has just failed to notify on a Job that was not
\* Delivered before, and the Job and its Request are Delivered.
C26_Witness ==
    /\ resp.op = "deliver_job" /\ resp.detail = "send_email raised"
    /\ jobs[resp.arg].status = "Delivered"
    /\ jobs[resp.arg].delivered_at = now - 1
    /\ requests[jobs[resp.arg].request_id].status = "Delivered"

\* C27: every step leaves each Message and each audit entry in place and
\* unchanged: the message log and the audit log of the state before are
\* prefixes of those of the state after.
C27_LogsAppendOnly ==
    [][/\ Len(messages') >= Len(messages)
       /\ SubSeq(messages', 1, Len(messages)) = messages
       /\ Len(audit_logs') >= Len(audit_logs)
       /\ SubSeq(audit_logs', 1, Len(audit_logs)) = audit_logs]_vars

\* C27 witness: two Messages have been persisted, one with its audit entry.
C27_Witness ==
    /\ Len(messages) >= 2
    /\ \E a \in DOMAIN audit_logs : audit_logs[a].action = "message_posted"

\* C28: every Quote's total is its word count times its unit price rounded
\* to two decimals: a whole number of hundredths at most half a hundredth
\* away from the product, the even one when two are equally near.
C28_TotalIsRounded ==
    \A q \in Ids(quotes) :
        LET m == quotes[q].word_count * quotes[q].unit_price
            off == 10 * quotes[q].total - m
        IN  /\ off \in -5 .. 5
            /\ off \in {-5, 5} => quotes[q].total % 2 = 0

\* C28 witness: update_quote has just re-priced a Quote to a product that
\* is not a whole number of hundredths.
C28_Witness ==
    /\ resp.op = "update_quote" /\ resp.code = 302
    /\ (quotes[resp.arg].word_count * quotes[resp.arg].unit_price) % 10 # 0

\* C29: update_quote changes no Quote but the one it re-prices, adds none,
\* and keeps that Quote's Request, creation time and status; create_request
\* adds exactly one Quote, in Draft, the only Quote of the new Request.
C29_RepriceInPlace ==
    [][/\ (resp'.op = "update_quote" /\ resp'.code = 302) =>
            LET q == resp'.arg
            IN  /\ Len(quotes') = Len(quotes)
                /\ \A k \in Ids(quotes) : k # q => quotes'[k] = quotes[k]
                /\ quotes'[q].request_id = quotes[q].request_id
                /\ quotes'[q].created_at = quotes[q].created_at
                /\ quotes'[q].status = quotes[q].status
       /\ (resp'.op = "create_request" /\ resp'.code = 302) =>
            /\ quotes' = Append(quotes, quotes'[Len(quotes')])
            /\ quotes'[Len(quotes')].status = "Draft"
            /\ QuotesOf(DB', resp'.obj) = {Len(quotes')}]_vars

\* C29 witness: update_quote has just changed the unit price of an Approved
\* Quote.
C29_Witness ==
    /\ resp.op = "update_quote" /\ resp.code = 302
    /\ quotes[resp.arg].status = "Approved"
    /\ quotes[resp.arg].unit_price = 125

\* C30: the end-to-end run, step by step.  Intake of 1000 words into the
\* empty store gives one Quote, Draft, at 0.10 with total 100.00; sending it
\* gives Sent; approving it gives Approved, one Job in New and the Request in
\* New; assigning translator 2 gives Assigned; delivering gives the Job and
\* the Request Delivered; invoicing gives exactly one Invoice, Issued, of
\* amount 100.00.
C30_EndToEnd ==
    [][LET Run5d == Served(deliver_job(Run4, 2, 1, "Precio: 3", None, TRUE))
       IN  /\ (StoreIs(EmptyDB) /\ resp'.op = "create_request" /\ resp'.code = 302
                /\ requests'[1].word_count = 1000) =>
                /\ Len(quotes') = 1
                /\ quotes'[1].status = "Draft"
                /\ quotes'[1].unit_price = 100
                /\ quotes'[1].total = 10000
           /\ (StoreIs(Run1) /\ resp'.op = "send_quote" /\ resp'.code = 302) =>
                quotes'[1].status = "Sent"
           /\ (StoreIs(Run2) /\ resp'.op = "approve_quote"
                /\ resp'.detail = "NameError: request") =>
                /\ quotes'[1].status = "Approved"
                /\ Len(jobs') = 1
                /\ jobs'[1].status = "New"
                /\ requests'[1].status = "New"
           /\ (StoreIs(Run3) /\ resp'.op = "assign_job" /\ resp'.code = 302
                /\ jobs'[1].translator_id = 2) =>
                /\ jobs'[1].status = "Assigned"
                /\ requests'[1].status = "Assigned"
           /\ (StoreIs(Run4) /\ resp'.op = "deliver_job"
                /\ resp'.detail = "Deliverable uploaded.") =>
                /\ jobs'[1].status = "Delivered"
                /\ requests'[1].status = "Delivered"
           /\ (StoreIs(Run5d) /\ resp'.op = "generate_invoice"
                /\ resp'.detail = "Invoice generated.") =>
                /\ Len(invoices') = 1
                /\ invoices'[1].status = "Issued"
                /\ invoices'[1].amount = 10000
                /\ invoices'[1].job_id = 1]_vars

\* C30 witness: the last two steps of the run have been taken from the
\* store the first four leave: the Job is Delivered and its one Invoice is
\* Issued at 100.00.
C30_Witness ==
    /\ resp.op = "generate_invoice" /\ resp.detail = "Invoice generated."
    /\ steps = 2
    /\ Len(requests) = 1 /\ requests[1].status = "Delivered"
    /\ Len(quotes) = 1 /\ quotes[1].status = "Approved" /\ quotes[1].total = 10000
    /\ Len(jobs) = 1 /\ jobs[1].status = "Delivered" /\ jobs[1].translator_id = 2
    /\ Len(invoices) = 1 /\ invoices[1].status = "Issued"
    /\ invoices[1].amount = 10000

(***************************************************************************)
(* Claims about the stored message text, checked under SpecChan.           *)
(***************************************************************************)
\* raw texts as long as the limit: all "<", all newlines, and a letter
\* followed by spaces up to a last letter just past the limit
LongTexts ==
    {[i \in 1 .. MaxMessageLen |-> "<"],
     [i \in 1 .. MaxMessageLen + 1 |-> IF i \in {1, MaxMessageLen + 1} THEN "a" ELSE "\n"],
     [i \in 1 .. MaxMessageLen + 1 |-> IF i \in {1, MaxMessageLen + 1} THEN "a" ELSE " "]}

\* C31: for every raw text, and for every stored Message, the sanitized text
\* has at most 1000 characters and neither starts nor ends with whitespace.
C31_StoredTextBounded ==
    /\ \A m \in DOMAIN messages :
          /\ Len(messages[m].text) <= MaxMessageLen
          /\ messages[m].text # <<>>
          /\ messages[m].text[1] \notin Whitespace
          /\ messages[m].text[Len(messages[m].text)] \notin Whitespace
    /\ \A text \in MessageTexts \cup LongTexts :
          LET t == sanitize_message(text)
          IN  /\ Len(t) <= MaxMessageLen
              /\ t # <<>> => t[1] \notin Whitespace /\ t[Len(t)] \notin Whitespace

(***************************************************************************)
(* Claims about intake, assignment and status changes, checked under Spec. *)
(***************************************************************************)
\* C32: create_request called by a client always completes: it answers with
\* the redirect and leaves the new Request with a Quote in Draft, also when
\* the text extraction fails.
C32_ExtractionFailureDegrades ==
    [][(resp'.op = "create_request" /\ resp'.code # 403) =>
          /\ resp'.code = 302
          /\ Len(requests') = Len(requests) + 1
          /\ \E q \in QuotesOf(DB', Len(requests')) : quotes'[q].status = "Draft"]_vars

\* C33: an assign that went through with a translator takes a Job in New to
\* Assigned, and its Request with it, and leaves the status of a Job in any
\* other status, and of its Request, as they were; an assign that went
\* through with no translator leaves the Job without translator and both
\* statuses as they were.
C33_AssignAdvancesFromNew ==
    \A j \in Ids(jobs), t \in AssignTargets :
        LET out == assign_job(DB, 1, j, t, None, None, TRUE)
            r == jobs[j].request_id
            kept == /\ out.d.jobs[j].status = jobs[j].status
                    /\ out.d.requests[r].status = requests[r].status
        IN  out.r.code = 302 =>
              /\ out.d.jobs[j].translator_id = t
              /\ (t # NULL /\ jobs[j].status = "New") =>
                    /\ out.d.jobs[j].status = "Assigned"
                    /\ out.d.requests[r].status = "Assigned"
              /\ (t # NULL /\ jobs[j].status # "New") => kept
              /\ t = NULL => kept

\* C33 witness: assign_job has just cleared the translator of a Job that
\* was started, and the Job is still InProgress.
C33_Witness ==
    /\ resp.op = "assign_job" /\ resp.code = 302
    /\ jobs[resp.arg].translator_id = NULL
    /\ jobs[resp.arg].status = "InProgress"

\* C34: an assign that went through leaves the Job with the due date and
\* the notes of the form (none when the form has none) and with no manager
\* comment; accept leaves no manager comment; return leaves its comment;
\* and a Job has a manager comment only if it has been returned.
C34_AssignOverwrites ==
    \A j \in Ids(jobs) :
        /\ \A t \in {NULL, Min(Translators)}, f \in AssignForms :
              LET out == assign_job(DB, 1, j, t, f[1], f[2], TRUE)
              IN  out.r.code = 302 =>
                    /\ out.d.jobs[j].due_date = f[1]
                    /\ out.d.jobs[j].notes = f[2]
                    /\ out.d.jobs[j].manager_comment = None
        /\ accept_job(DB, 1, j).d.jobs[j].manager_comment = None
        /\ \A c \in Comments : return_job(DB, 1, j, c).d.jobs[j].manager_comment = c
        /\ jobs[j].manager_comment # None =>
              \E a \in DOMAIN audit_logs :
                  /\ audit_logs[a].action = "job_returned"
                  /\ audit_logs[a].object_id = j

\* C34 witness: assign_job with an empty form has just gone through on a
\* Job that had been returned with a comment, and the Job has no due date,
\* no notes and no manager comment.
C34_Witness ==
    /\ resp.op = "assign_job" /\ resp.code = 302
    /\ jobs[resp.arg].due_date = None
    /\ jobs[resp.arg].notes = None
    /\ jobs[resp.arg].manager_comment = None
    /\ \E a \in DOMAIN audit_logs :
          audit_logs[a].action = "job_returned" /\ audit_logs[a].object_id = resp.arg

\* C35: update_job_status sets the status of the Job and of its Request to
\* the given status, sets delivered_at to the current time exactly when the
\* status is Delivered, and leaves delivered_at otherwise, and translator,
\* due date and notes always, as they were.
C35_TransitionFrame ==
    \A j \in Ids(jobs),
       status \in {"New", "Assigned", "InProgress", "Delivered", "Accepted"} :
        LET d == update_job_status(DB, j, status)
            old == jobs[j]
            new == d.jobs[j]
        IN  /\ new.status = status
            /\ d.requests[old.request_id].status = status
            /\ new.delivered_at = (IF status = "Delivered" THEN now ELSE old.delivered_at)
            /\ new.translator_id = old.translator_id
            /\ new.due_date = old.due_date
            /\ new.notes = old.notes

\* C35 witness: accept_job has just moved a delivered Job to Accepted, and
\* the Job still has the delivery time it had.
C35_Witness ==
    /\ resp.op = "accept_job" /\ resp.code = 302
    /\ jobs[resp.arg].status = "Accepted"
    /\ jobs[resp.arg].delivered_at # NULL
    /\ jobs[resp.arg].delivered_at < now - 1

\* C36: in every reachable store a Request has the word count of each of
\* its Quotes.
C36_WordCountInSync ==
    \A r \in Ids(requests) : \A q \in QuotesOf(DB, r) :
        requests[r].word_count = quotes[q].word_count

\* C36 witness: update_quote has just re-priced the Quote of a Request of
\* three words.
C36_Witness ==
    /\ resp.op = "update_quote" /\ resp.code = 302
    /\ quotes[resp.arg].word_count = 3
    /\ requests[quotes[resp.arg].request_id].word_count = 3

\* C37: generate_invoice gives the Invoice it creates the total and the
\* currency the Quote has at that time, and update_quote changes no Invoice.
C37_InvoiceSnapshot ==
    [][/\ (resp'.op = "generate_invoice" /\ Len(invoices') > Len(invoices)) =>
            LET i == Len(invoices')
                q == QuoteOf(DB, jobs[resp'.arg].request_id)
            IN  /\ q # NULL
                /\ invoices'[i].amount = quotes[q].total
                /\ invoices'[i].currency = quotes[q].currency
       /\ resp'.op = "update_quote" => invoices' = invoices]_vars

\* C37 witness: update_quote has just changed the total of a Quote whose
\* Job has an Invoice, and the Invoice has the total the Quote had.
C37_Witness ==
    /\ resp.op = "update_quote" /\ resp.code = 302
    /\ \E i \in Ids(invoices) :
          /\ jobs[invoices[i].job_id].request_id = quotes[resp.arg].request_id
          /\ invoices[i].amount # quotes[resp.arg].total
          /\ invoices[i].amount = 10000

\* C40: generate_invoice creates an Invoice only for a Job that is Delivered
\* or Accepted when it is called; called by a manager for a Job that is
\* missing or in another status it answers 400; and a call that answers 400
\* changes neither the invoices nor the audit log.
C40_InvoiceOnlyWhenDelivered ==
    [][resp'.op = "generate_invoice" =>
          LET j == resp'.arg
              ready == j \in Ids(jobs) /\ jobs[j].status \in {"Delivered", "Accepted"}
          IN  /\ Len(invoices') > Len(invoices) => ready
              /\ (~ready /\ resp'.user \in Managers) => resp'.code = 400
              /\ resp'.code = 400 =>
                    invoices' = invoices /\ audit_logs' = audit_logs]_vars

\* C40 witness: generate_invoice has just refused a Job that is InProgress.
C40_Witness ==
    /\ resp.op = "generate_invoice" /\ resp.code = 400
    /\ resp.arg \in Ids(jobs)
    /\ jobs[resp.arg].status = "InProgress"
    /\ InvoicesOf(DB, resp.arg) = {}

(***************************************************************************)
(* Claims about the registry and about who is on the channel.              *)
(***************************************************************************)
\* C38: every entry of the registry has a non-empty list and at least one
\* socket that is open: the entries are bounded by the Jobs with an open
\* connection.
C38_EntriesHaveOpenSocket ==
    \A j \in DOMAIN connections :
        /\ connections[j] # <<>>
        /\ \E i \in DOMAIN connections[j] : sockets[connections[j][i]].state = "open"

\* C39: a step that persists a Message persists it for an author who can
\* view the Job in the store the step starts from, and a step that sends a
\* message to a socket sends it to a user who can view the Job in that store.
C39_ChannelFollowsAssignment ==
    [][/\ Len(messages') > Len(messages) =>
            can_view_job(DB, messages'[Len(messages')].user_id,
                         messages'[Len(messages')].job_id)
       /\ \A s \in DOMAIN sockets :
            Len(sockets'[s].inbox) > Len(sockets[s].inbox) =>
                can_view_job(DB, sockets[s].user_id, sockets[s].job_id)]_vars

====
